---- MODULE Spec2Model ----
(***************************************************************************)
(* Model of scripts/overrider.py: the override-annotation auditor.         *)
(*                                                                         *)
(* A source file is a sequence of lines.  A line is the record             *)
(*   [k, ind, n, at, one]                                                  *)
(* k   : "class" | "def" | "adef" | "deco" | "stmt" | "bad"                *)
(* ind : indentation level (number of leading indentation units)           *)
(* n   : the class / method / decorator name ("" for a statement)          *)
(* at  : the text of the line contains the character "@"                   *)
(* one : a def whose body is on the same line (def f(self): return x)      *)
(* ast.parse is modelled by Parse, the two ast.NodeVisitor classes by      *)
(* AbstractMethodFinder and ImplementationFinder, the patcher by           *)
(* add_override_decorator, and main by the actions of Next.                *)
(***************************************************************************)
EXTENDS Integers, Sequences, FiniteSets, TLC

VARIABLES
    files,               \* path -> sequence of lines: the tree on disk
    files0,              \* the tree as it was when the current run started
    auto_fix,            \* main's auto_fix argument
    dry_run,             \* main's dry_run argument
    pc,                  \* position of main: start, scanned, apply, done
    abstract_methods,    \* result of process_codebase, first pass
    implementations,     \* result of process_codebase, second pass
    parse_errors,        \* paths reported by "Error processing" in a pass
    missing_overrides,   \* main's list of implementations to patch
    idx,                 \* index of the next element of missing_overrides
    offsets,             \* main's defaultdict: path -> lines inserted so far
    log,                 \* one record per add_override_decorator call
    writes,              \* number of file writes of the current run
    run,                 \* number of the current run of the tool
    stale                \* number of changes made to the tree by other programs

vars == <<files, files0, auto_fix, dry_run, pc, abstract_methods,
          implementations, parse_errors, missing_overrides, idx, offsets,
          log, writes, run, stale>>

--------------------------------------------------------------------------
\* Bounds of the model.

\* Method blocks per generated class.
MaxMethods == 2
\* Consecutive runs of the tool over the same tree.
MaxRuns == 2
\* Changes other programs make to the tree during a run (SpecStale only).
MaxStale == 1

--------------------------------------------------------------------------
\* Lines of source text.

None == "None"

Line(k, ind, n, at, one) == [k |-> k, ind |-> ind, n |-> n, at |-> at, one |-> one]
Cls(n, i)    == Line("class", i, n, FALSE, FALSE)
Def(n, i)    == Line("def", i, n, FALSE, FALSE)
ADef(n, i)   == Line("adef", i, n, FALSE, FALSE)
Def1At(n, i) == Line("def", i, n, TRUE, TRUE)
Deco(n, i)   == Line("deco", i, n, TRUE, FALSE)
Stmt(i)      == Line("stmt", i, "", FALSE, FALSE)
StmtAt(i)    == Line("stmt", i, "", TRUE, FALSE)
Bad          == Line("bad", 0, "", FALSE, FALSE)

\* "@" in target_line
ContainsAt(l) == l.at
\* "@property" in target_line
ContainsProperty(l) == l.k = "deco" /\ l.n = "property"

--------------------------------------------------------------------------
\* ast.parse on the line alphabet.  The parser state: the stack of open
\* blocks (its length is the indentation level of the current body), whether
\* the previous line was a block header still waiting for its body, the
\* decorators read and not yet attached, and the definitions found.

RangeOf(s) == {s[i] : i \in DOMAIN s}

ParseStart == [stack |-> <<>>, expect |-> FALSE, decos |-> <<>>, decoInd |-> 0,
               nodes |-> <<>>, err |-> FALSE]

ParseLine(st, l, i) ==
    LET d        == Len(st.stack)
        indentOK == IF st.expect THEN l.ind = d ELSE l.ind <= d
        decoOK   == \/ st.decos = <<>>
                    \/ /\ l.ind = st.decoInd
                       /\ l.k \in {"deco", "def", "adef", "class"}
    IN  IF st.err \/ l.k = "bad" \/ ~indentOK \/ ~decoOK
        THEN [st EXCEPT !.err = TRUE]
        ELSE LET stack == SubSeq(st.stack, 1, l.ind)
             IN CASE l.k = "deco" ->
                       [st EXCEPT !.stack = stack, !.expect = FALSE,
                                  !.decos = Append(st.decos, l.n),
                                  !.decoInd = l.ind]
                  [] l.k = "class" ->
                       [st EXCEPT !.stack = Append(stack, [t |-> "class", n |-> l.n]),
                                  !.expect = TRUE, !.decos = <<>>]
                  [] l.k \in {"def", "adef"} ->
                       [st EXCEPT !.stack = IF l.one THEN stack
                                            ELSE Append(stack, [t |-> "def", n |-> l.n]),
                                  !.expect = ~l.one, !.decos = <<>>,
                                  !.nodes = Append(st.nodes,
                                      [t |-> l.k, n |-> l.n, lineno |-> i,
                                       decos |-> st.decos, scope |-> stack])]
                  [] OTHER ->
                       [st EXCEPT !.stack = stack, !.expect = FALSE]

RECURSIVE ParseFrom(_, _, _)
ParseFrom(lines, i, st) ==
    IF i > Len(lines) THEN st
    ELSE ParseFrom(lines, i + 1, ParseLine(st, lines[i], i))

\* [err, nodes]: err is a SyntaxError; nodes are the function definitions of
\* the tree in source order, each with its decorator_list, its lineno (the
\* line of the def keyword) and the chain of blocks that enclose it.
Parse(lines) ==
    LET st == ParseFrom(lines, 1, ParseStart)
    IN  [err   |-> st.err \/ st.expect \/ st.decos # <<>>,
         nodes |-> st.nodes]

\* The name a visitor holds in current_class when it reaches the node.
CurrentClass(node) ==
    IF node.scope = <<>> THEN None ELSE node.scope[Len(node.scope)].n

\* visit_FunctionDef and visit_AsyncFunctionDef never call generic_visit:
\* nothing inside a function body is visited.
InsideFunction(node) == \E j \in DOMAIN node.scope : node.scope[j].t = "def"

--------------------------------------------------------------------------
\* AbstractMethodFinder

\* One record per decorator named abstractmethod.
RECURSIVE AbstractRecords(_, _, _)
AbstractRecords(path, node, j) ==
    IF j > Len(node.decos) THEN <<>>
    ELSE (IF node.decos[j] = "abstractmethod"
          THEN <<[name |-> node.n, module |-> path,
                  class_name |-> CurrentClass(node), lineno |-> node.lineno]>>
          ELSE <<>>)
         \o AbstractRecords(path, node, j + 1)

RECURSIVE AbstractVisit(_, _, _)
AbstractVisit(path, nodes, i) ==
    IF i > Len(nodes) THEN <<>>
    ELSE (IF InsideFunction(nodes[i]) THEN <<>>
          ELSE AbstractRecords(path, nodes[i], 1))
         \o AbstractVisit(path, nodes, i + 1)

\* assert self.current_module and self.current_class
AbstractAssertFails(nodes) ==
    \E i \in DOMAIN nodes :
        /\ ~InsideFunction(nodes[i])
        /\ "abstractmethod" \in RangeOf(nodes[i].decos)
        /\ CurrentClass(nodes[i]) = None

\* The try block of the first pass for one file: [err, out].
AbstractMethodFinder(path, lines) ==
    LET p == Parse(lines)
    IN  IF p.err \/ AbstractAssertFails(p.nodes)
        THEN [err |-> TRUE, out |-> <<>>]
        ELSE [err |-> FALSE, out |-> AbstractVisit(path, p.nodes, 1)]

--------------------------------------------------------------------------
\* ImplementationFinder

AbstractMethodNames(am) == {am[i].name : i \in DOMAIN am}
AbstractClasses(am) == {am[i].class_name : i \in DOMAIN am}

\* A visit_ClassDef that visits every class.
InsideAbstractClass_Never(node, am) == FALSE

\* visit_ClassDef calls generic_visit only for a class whose name is not in
\* abstract_classes: nothing inside such a class is visited.
InsideAbstractClass(node, am) ==
    \E j \in DOMAIN node.scope :
        node.scope[j].t = "class" /\ node.scope[j].n \in AbstractClasses(am)

HasOverride(decos) == "override" \in RangeOf(decos)

\* "Make sure this isn't the abstract method itself"
ExcludedSync(decos) ==
    \E d \in RangeOf(decos) : d \in {"abstractmethod", "staticmethod"}

ExcludedAsync(decos) ==
    \E d \in RangeOf(decos) : d = "abstractmethod"

Excluded(node) ==
    IF node.t = "def" THEN ExcludedSync(node.decos) ELSE ExcludedAsync(node.decos)

ImplVisited(node, am) == ~InsideFunction(node) /\ ~InsideAbstractClass(node, am)

ImplCandidate(node, am) ==
    /\ ImplVisited(node, am)
    /\ node.n \in AbstractMethodNames(am)
    /\ ~Excluded(node)

RECURSIVE ImplVisit(_, _, _, _)
ImplVisit(path, nodes, am, i) ==
    IF i > Len(nodes) THEN <<>>
    ELSE (IF ImplCandidate(nodes[i], am)
          THEN <<[name |-> nodes[i].n, module |-> path,
                  class_name |-> CurrentClass(nodes[i]),
                  lineno |-> nodes[i].lineno,
                  has_override |-> HasOverride(nodes[i].decos),
                  source_file |-> path]>>
          ELSE <<>>)
         \o ImplVisit(path, nodes, am, i + 1)

\* assert self.current_module and self.current_class, in visit_FunctionDef
\* only: visit_AsyncFunctionDef has no assertion.
ImplAssertFails(nodes, am) ==
    \E i \in DOMAIN nodes :
        /\ nodes[i].t = "def"
        /\ ImplCandidate(nodes[i], am)
        /\ CurrentClass(nodes[i]) = None

\* The try block of the second pass for one file: [err, out].
ImplementationFinder(path, lines, am) ==
    LET p == Parse(lines)
    IN  IF p.err \/ ImplAssertFails(p.nodes, am)
        THEN [err |-> TRUE, out |-> <<>>]
        ELSE [err |-> FALSE, out |-> ImplVisit(path, p.nodes, am, 1)]

--------------------------------------------------------------------------
\* process_codebase

\* The order in which os.walk yields the files.
FileOrder == <<"base.py", "impl.py">>
Paths == RangeOf(FileOrder)

RECURSIVE FirstPass(_, _)
FirstPass(fs, i) ==
    IF i > Len(FileOrder) THEN [out |-> <<>>, errs |-> {}]
    ELSE LET r    == AbstractMethodFinder(FileOrder[i], fs[FileOrder[i]])
             rest == FirstPass(fs, i + 1)
         IN  [out  |-> r.out \o rest.out,
              errs |-> (IF r.err THEN {FileOrder[i]} ELSE {}) \cup rest.errs]

\* A second pass whose try block encloses the whole loop: one failing file
\* loses the implementations of every file.
RECURSIVE SecondPass_AbortOnError(_, _, _)
SecondPass_AbortOnError(fs, am, i) ==
    IF i > Len(FileOrder) THEN [out |-> <<>>, errs |-> {}]
    ELSE LET r    == ImplementationFinder(FileOrder[i], fs[FileOrder[i]], am)
             rest == SecondPass_AbortOnError(fs, am, i + 1)
             errs == (IF r.err THEN {FileOrder[i]} ELSE {}) \cup rest.errs
         IN  [out  |-> IF errs = {} THEN r.out \o rest.out ELSE <<>>,
              errs |-> errs]

RECURSIVE SecondPass(_, _, _)
SecondPass(fs, am, i) ==
    IF i > Len(FileOrder) THEN [out |-> <<>>, errs |-> {}]
    ELSE LET r    == ImplementationFinder(FileOrder[i], fs[FileOrder[i]], am)
             rest == SecondPass(fs, am, i + 1)
         IN  [out  |-> r.out \o rest.out,
              errs |-> (IF r.err THEN {FileOrder[i]} ELSE {}) \cup rest.errs]

--------------------------------------------------------------------------
\* add_override_decorator

\* Python list indexing: lines[p] with p counted from 0, a negative p counted
\* from the end, IndexError outside -len .. len-1.
InRange(lines, p) == -Len(lines) <= p /\ p < Len(lines)
PyAt(lines, p) == IF p >= 0 THEN lines[p + 1] ELSE lines[Len(lines) + p + 1]

\* A patcher that inserts below the line it should insert above.
PyInsert_After(lines, q, x) ==
    LET n   == Len(lines)
        pos == IF q + 1 > n THEN n ELSE q + 1
    IN  SubSeq(lines, 1, pos) \o <<x>> \o SubSeq(lines, pos + 1, n)

\* Python list.insert(q, x): q is clamped to the list, a negative q counts
\* from the end.
PyInsert(lines, q, x) ==
    LET n   == Len(lines)
        pos == IF q >= 0 THEN (IF q > n THEN n ELSE q)
               ELSE (IF n + q < 0 THEN 0 ELSE n + q)
    IN  SubSeq(lines, 1, pos) \o <<x>> \o SubSeq(lines, pos + 1, n)

\* A walk that does not stop at a @property line.
WalksOver_AnyAt(l) == ContainsAt(l)

\* The loop condition: "@" in target_line and "@property" not in target_line
WalksOver(l) == ContainsAt(l) /\ ~ContainsProperty(l)

\* target_line = lines[line_number - 2]; while ...: line_number -= 1; ...
\* [ok, ln]: ok is FALSE when a read of lines raises IndexError.
RECURSIVE WalkUp(_, _)
WalkUp(lines, ln) ==
    IF ~InRange(lines, ln - 2) THEN [ok |-> FALSE, ln |-> ln]
    ELSE IF WalksOver(PyAt(lines, ln - 2)) THEN WalkUp(lines, ln - 1)
    ELSE [ok |-> TRUE, ln |-> ln]

\* decorator_line = " " * indent + "@override\n"
DecoratorLine(method_line) == Deco("override", method_line.ind)

\* A patcher that appends the marker when the line is past the end of the
\* file instead of raising.
add_override_decorator_clamped(lines, line_number) ==
    IF line_number - 1 >= Len(lines)
    THEN [ok |-> TRUE, lines |-> Append(lines, Deco("override", 0)),
          pos |-> Len(lines) + 1]
    ELSE LET method_line == PyAt(lines, line_number - 1)
             w           == WalkUp(lines, line_number)
         IN  IF ~w.ok THEN [ok |-> FALSE, lines |-> lines, pos |-> 0]
             ELSE [ok    |-> TRUE,
                   lines |-> PyInsert(lines, w.ln - 1, DecoratorLine(method_line)),
                   pos   |-> w.ln]

\* [ok, lines, pos]: ok is FALSE when the call raises, and then nothing was
\* written; lines is the content written back; pos is the line number the
\* new line has in it.
add_override_decorator(lines, line_number) ==
    IF ~InRange(lines, line_number - 1)
    THEN [ok |-> FALSE, lines |-> lines, pos |-> 0]
    ELSE LET method_line == PyAt(lines, line_number - 1)
             w           == WalkUp(lines, line_number)
         IN  IF ~w.ok THEN [ok |-> FALSE, lines |-> lines, pos |-> 0]
             ELSE [ok    |-> TRUE,
                   lines |-> PyInsert(lines, w.ln - 1, DecoratorLine(method_line)),
                   pos   |-> w.ln]

--------------------------------------------------------------------------
\* main

RECURSIVE Reverse(_)
Reverse(q) == IF q = <<>> THEN <<>> ELSE Append(Reverse(Tail(q)), Head(q))

\* A main that patches a file from its last implementation to its first.
MissingOverrides_Reversed(impls) ==
    Reverse(SelectSeq(impls, LAMBDA impl : ~impl.has_override))

\* if not impl.has_override: missing_overrides.append(impl)
IsMissing(impl) == ~impl.has_override
MissingOverrides(impls) == SelectSeq(impls, IsMissing)

\* A main that tests auto_fix before dry_run.
AppliesFixes_IgnoresDryRun(missing, af, dr) == missing # <<>> /\ af

\* if missing_overrides: if dry_run: ... elif auto_fix: ...
AppliesFixes(missing, af, dr) == missing # <<>> /\ ~dr /\ af

\* A main that forgets the lines it has inserted.
RealLine_NoOffset(lineno, offset) == lineno

\* add_override_decorator(impl.source_file, impl.lineno + offset)
RealLine(lineno, offset) == lineno + offset

\* offsets[impl.source_file] += 1 is reached only when the call returned.
OffsetAfter(offset, ok) == IF ok THEN offset + 1 ELSE offset

ProcessCodebase ==
    /\ pc = "start"
    /\ LET first  == FirstPass(files, 1)
           second == SecondPass(files, first.out, 1)
       IN  /\ abstract_methods' = first.out
           /\ implementations' = second.out
           /\ parse_errors' = [first |-> first.errs, second |-> second.errs]
    /\ pc' = "scanned"
    /\ UNCHANGED <<files, files0, auto_fix, dry_run, missing_overrides, idx,
                   offsets, log, writes, run, stale>>

Report ==
    /\ pc = "scanned"
    /\ missing_overrides' = MissingOverrides(implementations)
    /\ pc' = IF AppliesFixes(missing_overrides', auto_fix, dry_run)
             THEN "apply" ELSE "done"
    /\ idx' = 1
    /\ offsets' = [p \in Paths |-> 0]
    /\ UNCHANGED <<files, files0, auto_fix, dry_run, abstract_methods,
                   implementations, parse_errors, log, writes, run, stale>>

\* One iteration of "for impl in missing_overrides".
ApplyOne ==
    /\ pc = "apply"
    /\ idx <= Len(missing_overrides)
    /\ LET impl   == missing_overrides[idx]
           f      == impl.source_file
           offset == offsets[f]
           line   == RealLine(impl.lineno, offset)
           r      == add_override_decorator(files[f], line)
       IN  /\ files' = [files EXCEPT ![f] = r.lines]
           /\ offsets' = [offsets EXCEPT ![f] = OffsetAfter(offset, r.ok)]
           /\ writes' = IF r.ok THEN writes + 1 ELSE writes
           /\ log' = Append(log, [impl |-> impl, line |-> line, ok |-> r.ok,
                                  pos |-> r.pos, before |-> files[f]])
    /\ idx' = idx + 1
    /\ pc' = IF idx' > Len(missing_overrides) THEN "done" ELSE "apply"
    /\ UNCHANGED <<files0, auto_fix, dry_run, abstract_methods, implementations,
                   parse_errors, missing_overrides, run, stale>>

\* The tool is started again on the tree the previous run left.
Rerun ==
    /\ pc = "done"
    /\ run < MaxRuns
    /\ run' = run + 1
    /\ pc' = "start"
    /\ files0' = files
    /\ abstract_methods' = <<>>
    /\ implementations' = <<>>
    /\ parse_errors' = [first |-> {}, second |-> {}]
    /\ missing_overrides' = <<>>
    /\ idx' = 1
    /\ offsets' = [p \in Paths |-> 0]
    /\ log' = <<>>
    /\ writes' = 0
    /\ UNCHANGED <<files, auto_fix, dry_run, stale>>

\* Another program shortens a file while the tool runs: the line numbers
\* the scan recorded are stale.
ExternalTruncate ==
    /\ pc \in {"scanned", "apply"}
    /\ stale < MaxStale
    /\ \E f \in Paths : \E n \in 0..(Len(files[f]) - 1) :
           files' = [files EXCEPT ![f] = SubSeq(files[f], 1, n)]
    /\ stale' = stale + 1
    /\ UNCHANGED <<files0, auto_fix, dry_run, pc, abstract_methods,
                   implementations, parse_errors, missing_overrides, idx,
                   offsets, log, writes, run>>

--------------------------------------------------------------------------
\* The trees the runs start from.

RECURSIVE Flatten(_)
Flatten(ss) == IF ss = <<>> THEN <<>> ELSE Head(ss) \o Flatten(Tail(ss))

DecoLines(ds, i) == [j \in 1..Len(ds) |-> Deco(ds[j], i)]

\* A method at indentation i: its decorators, its def line, its body.
Block(ds, k, n, i) ==
    DecoLines(ds, i) \o <<Line(k, i, n, FALSE, FALSE), Stmt(i + 1)>>

\* What a generated class body is made of.
Catalogue ==
    { Block(<<>>, "def", "run", 1),
      Block(<<>>, "adef", "run", 1),
      Block(<<"override">>, "def", "run", 1),
      Block(<<"other">>, "def", "run", 1),
      Block(<<"property">>, "def", "run", 1),
      Block(<<"property", "other">>, "def", "run", 1),
      Block(<<"staticmethod">>, "def", "run", 1),
      Block(<<"staticmethod">>, "adef", "run", 1),
      Block(<<"classmethod">>, "def", "run", 1),
      Block(<<"classmethod">>, "adef", "go", 1),
      Block(<<>>, "def", "go", 1),
      Block(<<>>, "def", "aux", 1),
      <<Def1At("aux", 1)>>,
      <<StmtAt(1)>> }

ClassFile(name, blocks) == <<Cls(name, 0)>> \o Flatten(blocks)

GeneratedFiles ==
    { ClassFile("D", bs) : bs \in UNION {[1..n -> Catalogue] : n \in 1..MaxMethods} }

\* class B with the abstract methods run and (async) go
BaseRunGo ==
    <<Cls("B", 0)>> \o Block(<<"abstractmethod">>, "def", "run", 1)
                    \o Block(<<"abstractmethod">>, "adef", "go", 1)

BaseFiles ==
    { BaseRunGo,
      \* one abstract method
      <<Cls("B", 0)>> \o Block(<<"abstractmethod">>, "def", "run", 1),
      \* no abstract method at all
      <<Cls("B", 0)>> \o Block(<<>>, "def", "run", 1),
      \* an abstract class and an implementing class in one file
      BaseRunGo \o <<Cls("E", 0)>> \o Block(<<>>, "def", "run", 1)
                \o Block(<<"other">>, "adef", "go", 1),
      \* a class nested in the abstract class
      BaseRunGo \o <<Cls("I", 1)>> \o Block(<<>>, "def", "run", 2),
      \* a file that does not parse
      BaseRunGo \o <<Bad>>,
      \* an abstract marker on a function outside any class
      Block(<<"abstractmethod">>, "def", "go", 0)
          \o <<Cls("B", 0)>> \o Block(<<"abstractmethod">>, "def", "run", 1) }

SpecialFiles ==
    { \* a function outside any class, then a class
      Block(<<>>, "def", "run", 0) \o ClassFile("D", <<Block(<<>>, "def", "run", 1)>>),
      Block(<<>>, "adef", "run", 0) \o ClassFile("D", <<Block(<<>>, "def", "run", 1)>>),
      Block(<<>>, "def", "aux", 0) \o ClassFile("D", <<Block(<<>>, "def", "run", 1)>>),
      \* a class nested in a class
      ClassFile("D", <<Block(<<>>, "def", "run", 1)>>) \o <<Cls("I", 1)>>
          \o Block(<<>>, "def", "run", 2),
      \* a class with the name of the abstract class
      ClassFile("B", <<Block(<<>>, "def", "run", 1)>>),
      \* a file that does not parse
      ClassFile("D", <<Block(<<>>, "def", "run", 1)>>) \o <<Bad>>,
      \* abstract markers in a file whose first pass fails
      Block(<<"abstractmethod">>, "def", "aux", 0)
          \o ClassFile("D", <<Block(<<"abstractmethod">>, "def", "run", 1),
                              Block(<<"abstractmethod">>, "adef", "run", 1)>>),
      \* a function nested in a method
      <<Cls("D", 0), Def("aux", 1), Def("run", 2), Stmt(3)>>,
      \* three implementations in one class
      ClassFile("D", <<Block(<<>>, "def", "run", 1), Block(<<>>, "adef", "run", 1),
                       Block(<<>>, "def", "go", 1)>>),
      \* an implementation on line 1 of a file whose last line contains "@"
      <<ADef("run", 0), Stmt(1), Cls("D", 0), StmtAt(1)>>,
      \* an empty file
      <<>> }

\* The trees a run that other programs disturb starts from.
StaleTrees ==
    { [p \in Paths |-> IF p = "base.py" THEN BaseRunGo
                       ELSE ClassFile("D", <<b>>)] : b \in Catalogue }
    \cup
    { [p \in Paths |-> IF p = "base.py" THEN b ELSE g] :
          b \in BaseFiles, g \in SpecialFiles }

Trees ==
    { [p \in Paths |-> IF p = "base.py" THEN BaseRunGo ELSE g] : g \in GeneratedFiles }
    \cup StaleTrees

InitRun ==
    /\ files0 = files
    /\ auto_fix \in BOOLEAN
    /\ dry_run \in BOOLEAN
    /\ pc = "start"
    /\ abstract_methods = <<>>
    /\ implementations = <<>>
    /\ parse_errors = [first |-> {}, second |-> {}]
    /\ missing_overrides = <<>>
    /\ idx = 1
    /\ offsets = [p \in Paths |-> 0]
    /\ log = <<>>
    /\ writes = 0
    /\ run = 1
    /\ stale = 0

Init == files \in Trees /\ InitRun

InitStale == files \in StaleTrees /\ InitRun

Next == ProcessCodebase \/ Report \/ ApplyOne \/ Rerun

Spec == Init /\ [][Next]_vars

NextStale == Next \/ ExternalTruncate

SpecStale == InitStale /\ [][NextStale]_vars

--------------------------------------------------------------------------
\* The line numbers of main's loop for the edits of one file, every call
\* returning: offset = offsets[f]; add_override_decorator(f, lineno + offset);
\* offsets[f] += 1.
RECURSIVE RealIndices(_, _)
RealIndices(origs, offset) ==
    IF origs = <<>> THEN <<>>
    ELSE <<RealLine(Head(origs), offset)>>
         \o RealIndices(Tail(origs), OffsetAfter(offset, TRUE))

\* Calls of the current run, before call i, that patched file f.
AppliedBefore(f, i) ==
    Cardinality({j \in 1..(i - 1) : log[j].ok /\ log[j].impl.source_file = f})

Applied(f) == AppliedBefore(f, Len(log) + 1)

ApplyMode == auto_fix /\ ~dry_run

--------------------------------------------------------------------------
\* C1: in apply mode the k-th edit applied to a file (k counted from 0 over
\* the edits already applied to that file) is made at line
\* original line + k; the offset of a file starts at 0, grows by exactly 1
\* per applied edit and is not touched by the edits of another file; edits
\* at the original lines 3, 3, 7 are made at 3, 4, 9.
C1_OffsetPerFile ==
    /\ RealIndices(<<3, 3, 7>>, 0) = <<3, 4, 9>>
    /\ pc \in {"apply", "done"} =>
         /\ \A i \in DOMAIN log :
              /\ log[i].impl = missing_overrides[i]
              /\ log[i].line = log[i].impl.lineno
                                 + AppliedBefore(log[i].impl.source_file, i)
         /\ \A f \in Paths : offsets[f] = Applied(f)

\* Two edits were applied to one file and one to the other, and one edit of
\* the run failed.
C1_Witness ==
    /\ pc = "done"
    /\ \E f \in Paths : Applied(f) >= 2
    /\ \A f \in Paths : Applied(f) >= 1
    /\ \E i \in DOMAIN log : ~log[i].ok

--------------------------------------------------------------------------
\* Where a line that call i left at line p of its file stands once the calls
\* j, j + 1, ... of the run are made: every later insertion at or above it
\* moves it down by one.
RECURSIVE Shift(_, _, _)
Shift(p, f, j) ==
    IF j > Len(log) THEN p
    ELSE IF log[j].ok /\ log[j].impl.source_file = f /\ log[j].pos <= p
         THEN Shift(p + 1, f, j + 1)
         ELSE Shift(p, f, j + 1)

\* The line of the marker call i inserted, and of the def line it was
\* planned for, in the file as it stands now.
MarkerPos(i) == Shift(log[i].pos, log[i].impl.source_file, i + 1)
DefPos(i) == Shift(log[i].line + 1, log[i].impl.source_file, i + 1)

Pending(f) ==
    Cardinality({i \in DOMAIN missing_overrides : missing_overrides[i].source_file = f})

\* The def line of an implementation, as the scan read it.
MethodLine(impl) == files0[impl.source_file][impl.lineno]

IsDefOf(l, impl) == l.k \in {"def", "adef"} /\ l.n = impl.name

\* Every planned edit was made, and every file grew by one line per edit.
AllPatched ==
    /\ \A f \in Paths : Len(files[f]) = Len(files0[f]) + Pending(f)
    /\ Len(log) = Len(missing_overrides)
    /\ \A i \in DOMAIN log : log[i].ok

\* The marker of call i stands above the def line it was planned for.
MarkerAboveDef(i) ==
    LET f == log[i].impl.source_file
    IN  /\ IsDefOf(MethodLine(log[i].impl), log[i].impl)
        /\ files[f][DefPos(i)] = MethodLine(log[i].impl)
        /\ files[f][MarkerPos(i)] = Deco("override", MethodLine(log[i].impl).ind)
        /\ MarkerPos(i) < DefPos(i)

\* Some line above the def line stops the upward walk of call i.
WalkStops(i) ==
    \E p \in 1..(log[i].line - 1) : ~WalksOver(log[i].before[p])

--------------------------------------------------------------------------
\* The number of lines directly above line ln of lines, adjacent to it and
\* to each other, that satisfy P.
RECURSIVE RunAbove(_, _, _)
RunAbove(P(_), lines, ln) ==
    IF ln > 1 /\ P(lines[ln - 1]) THEN 1 + RunAbove(P, lines, ln - 1) ELSE 0

IsDecoratorLine(l) == l.k = "deco"
IsAtLineNotProperty(l) == l.at /\ ~(l.k = "deco" /\ l.n = "property")

--------------------------------------------------------------------------
Scanned == pc \in {"scanned", "apply", "done"}

ImplSet == RangeOf(implementations)

\* The names of the decorator lines directly above line ln.
DecoratorsAbove(lines, ln) ==
    {lines[p].n : p \in (ln - RunAbove(IsDecoratorLine, lines, ln))..(ln - 1)}

\* The decorators of the def line an Implementation record points at.
MarkersOf(impl) == DecoratorsAbove(files0[impl.source_file], impl.lineno)

\* C4: a method that carries the abstract marker, the static-method marker
\* or the class-method marker is never recorded as an Implementation, be it
\* a def or an async def.
C4_MarkedNeverRecorded ==
    Scanned =>
        \A impl \in ImplSet :
            MarkersOf(impl) \cap {"abstractmethod", "staticmethod", "classmethod"} = {}

\* What the code does keep of C4: no recorded method carries the abstract
\* marker, and no recorded def (not async) carries the static-method marker.
C4_WhatHolds ==
    Scanned =>
        \A impl \in ImplSet :
            /\ "abstractmethod" \notin MarkersOf(impl)
            /\ files0[impl.source_file][impl.lineno].k = "def"
                   => "staticmethod" \notin MarkersOf(impl)

--------------------------------------------------------------------------
\* C5: every Implementation record has the name of a collected
\* AbstractDeclaration and an owning type that does not declare that method
\* abstractly; a method marked abstract is never an Implementation; with no
\* abstract declaration there is no Implementation.
C5_ImplementationInvariant ==
    Scanned =>
        /\ \A impl \in ImplSet :
             /\ \E i \in DOMAIN abstract_methods :
                    abstract_methods[i].name = impl.name
             /\ ~\E i \in DOMAIN abstract_methods :
                    /\ abstract_methods[i].name = impl.name
                    /\ abstract_methods[i].class_name = impl.class_name
             /\ IsDefOf(files0[impl.source_file][impl.lineno], impl)
             /\ "abstractmethod" \notin MarkersOf(impl)
        /\ abstract_methods = <<>> => implementations = <<>>

\* A scan that recorded an implementation and passed over a method of the
\* same name in the class that declares it abstractly.
C5_Witness ==
    /\ Scanned
    /\ implementations # <<>>
    /\ \E f \in Paths : \E ln \in DOMAIN files0[f] : \E i \in DOMAIN abstract_methods :
         /\ files0[f][ln].k = "def"
         /\ files0[f][ln].n = abstract_methods[i].name
         /\ ln > 1 /\ files0[f][ln - 1] = Cls(abstract_methods[i].class_name, 0)
         /\ DecoratorsAbove(files0[f], ln) = {}
         /\ ~\E impl \in ImplSet : impl.source_file = f /\ impl.lineno = ln

\* The markers that, by the description of the Matcher, make a method no
\* candidate.
SpecExcluded(node) ==
    RangeOf(node.decos) \cap {"abstractmethod", "staticmethod", "classmethod"} # {}

\* C6: in every file that parses, every method that is a direct member of a
\* type (top-level or nested in another type) whose name is not in the
\* abstract-declaring-type set, whose name is an abstract method name and
\* which is not excluded, is recorded as an Implementation; a function
\* outside any type does not keep the methods of its file from being recorded.
C6_MatcherComplete ==
    Scanned =>
        \A f \in Paths :
            LET p == Parse(files0[f])
            IN  ~p.err =>
                  \A i \in DOMAIN p.nodes :
                      LET node == p.nodes[i]
                      IN  /\ node.scope # <<>>
                          /\ \A j \in DOMAIN node.scope : node.scope[j].t = "class"
                          /\ CurrentClass(node) \notin AbstractClasses(abstract_methods)
                          /\ node.n \in AbstractMethodNames(abstract_methods)
                          /\ ~SpecExcluded(node)
                          => \E impl \in ImplSet :
                                 /\ impl.source_file = f
                                 /\ impl.lineno = node.lineno
                                 /\ impl.name = node.n
                                 /\ impl.class_name = CurrentClass(node)

--------------------------------------------------------------------------
\* The edit main is about to make is out of range for its file as it is on
\* disk now.
NextOutOfRange ==
    /\ pc = "apply"
    /\ idx <= Len(missing_overrides)
    /\ missing_overrides[idx].lineno + offsets[missing_overrides[idx].source_file]
           > Len(files[missing_overrides[idx].source_file])

\* Call i of the run failed because its line was out of range.
FailedOutOfRange(i) == ~log[i].ok /\ log[i].line > Len(log[i].before)

\* C7: an edit whose line is out of range for the current content of its
\* file fails, the failure is reported for that implementation, and the step
\* leaves every file exactly as it was.
C7_FailedEditLeavesFile ==
    [][NextOutOfRange /\ idx' = idx + 1 =>
          /\ files' = files
          /\ writes' = writes
          /\ log' = Append(log, [impl |-> missing_overrides[idx],
                                 line |-> missing_overrides[idx].lineno
                                            + offsets[missing_overrides[idx].source_file],
                                 ok |-> FALSE, pos |-> 0,
                                 before |-> files[missing_overrides[idx].source_file]])]_vars

\* An edit failed as out of range on a file that other edits had patched.
C7_Witness ==
    \E i \in DOMAIN log :
        /\ FailedOutOfRange(i)
        /\ log[i].before # <<>>
        /\ files[log[i].impl.source_file] = log[i].before
        /\ \E j \in DOMAIN log : log[j].ok

\* C8: once an edit of a file has failed as out of range, no later edit of
\* that file is applied in the run: each of them is attempted and reported
\* as failed; the edits of the other files are still applied.
C8_NoLaterEditOfFile ==
    /\ \A i, j \in DOMAIN log :
         /\ i < j
         /\ FailedOutOfRange(i)
         /\ log[i].impl.source_file = log[j].impl.source_file
         => ~log[j].ok
    /\ pc = "done" /\ ApplyMode => Len(log) = Len(missing_overrides)
    /\ \A j \in DOMAIN log :
         log[j].line <= Len(log[j].before) /\ WalkStops(j) => log[j].ok

\* A finished run in which an edit of one file failed as out of range, a
\* later edit of that file failed too, and an edit of the other file, made
\* after the first failure, was applied.
C8_Witness ==
    /\ pc = "done"
    /\ \E i, j, k \in DOMAIN log :
         /\ i < j /\ i < k
         /\ FailedOutOfRange(i)
         /\ log[j].impl.source_file = log[i].impl.source_file
         /\ ~log[j].ok
         /\ log[k].impl.source_file # log[i].impl.source_file
         /\ log[k].ok

--------------------------------------------------------------------------
\* C9: with neither flag set (scan) and with the dry-run flag set (dry run,
\* whatever the apply flag is) a run writes no file: the tree stays as the
\* run found it.
C9_NoWriteUnlessApply ==
    (~auto_fix /\ ~dry_run) \/ dry_run =>
        /\ files = files0
        /\ writes = 0
        /\ log = <<>>
        /\ pc # "apply"

\* A finished dry run with both flags set that found a missing marker.
C9_Witness ==
    /\ pc = "done"
    /\ dry_run /\ auto_fix
    /\ missing_overrides # <<>>
    /\ files = files0

\* C10 as claimed: apply inserts one marker for every implementation
\* recorded with has_override = FALSE and none for any other; a file all of
\* whose implementations carry the marker is left as it is; a second apply
\* run on the result of an apply run in which every edit succeeded changes
\* no file.
C10_ApplyOnlyMissingOnce ==
    ApplyMode =>
        /\ \A i \in DOMAIN log :
             /\ log[i].impl = missing_overrides[i]
             /\ ~log[i].impl.has_override
             /\ log[i].impl \in ImplSet
        /\ pc = "done" =>
             /\ \A f \in Paths :
                  Len(files[f]) = Len(files0[f])
                      + Cardinality({i \in DOMAIN implementations :
                                        /\ implementations[i].source_file = f
                                        /\ ~implementations[i].has_override})
             /\ \A f \in Paths :
                  (\A impl \in ImplSet : impl.source_file = f => impl.has_override)
                      => files[f] = files0[f]
        /\ run >= 2 => files = files0

\* The part of C10 that does not look at a second run.
C10_FirstRun ==
    ApplyMode =>
        /\ \A i \in DOMAIN log :
             /\ log[i].impl = missing_overrides[i]
             /\ ~log[i].impl.has_override
             /\ log[i].impl \in ImplSet
        /\ pc = "done" =>
             /\ \A f \in Paths :
                  Len(files[f]) = Len(files0[f])
                      + Cardinality({i \in DOMAIN implementations :
                                        /\ implementations[i].source_file = f
                                        /\ ~implementations[i].has_override})
             /\ \A f \in Paths :
                  (\A impl \in ImplSet : impl.source_file = f => impl.has_override)
                      => files[f] = files0[f]

--------------------------------------------------------------------------
\* C11: when the same (owning type name, method name) pair is visited more
\* than once by the second pass, only the first occurrence is kept: no two
\* implementation records share the pair, and no two edits of a run are made
\* for the same pair.
SamePair(a, b) == a.class_name = b.class_name /\ a.name = b.name

C11_FirstSeenOnly ==
    /\ Scanned =>
         \A i, j \in DOMAIN implementations :
             i < j => ~SamePair(implementations[i], implementations[j])
    /\ \A i, j \in DOMAIN log :
         i < j => ~SamePair(log[i].impl, log[j].impl)

--------------------------------------------------------------------------
\* C12: a file that cannot be parsed is reported in both passes, contributes
\* no abstract method and no implementation, and does not stop the run: the
\* abstract methods, the implementations and the errors reported for the
\* other files are those of the same tree without the failing file.
ParseFails(f) == Parse(files0[f]).err

\* The tree without file f: a file with no line gives no record and no
\* error in either pass.
Without(fs, f) == [fs EXCEPT ![f] = <<>>]

C12_ParseFailureIsolated ==
    Scanned =>
        \A f \in Paths :
            ParseFails(f) =>
                /\ f \in parse_errors.first
                /\ f \in parse_errors.second
                /\ \A i \in DOMAIN abstract_methods :
                       abstract_methods[i].module # f
                /\ \A i \in DOMAIN implementations :
                       /\ implementations[i].source_file # f
                       /\ implementations[i].module # f
                /\ LET first  == FirstPass(Without(files0, f), 1)
                       second == SecondPass(Without(files0, f), first.out, 1)
                   IN  /\ abstract_methods = first.out
                       /\ implementations = second.out
                       /\ parse_errors.first \ {f} = first.errs
                       /\ parse_errors.second \ {f} = second.errs

\* A run that finished although one file could not be parsed, with abstract
\* methods and implementations found in the other file.
C12_Witness ==
    /\ pc = "done"
    /\ \E f \in Paths : ParseFails(f)
    /\ abstract_methods # <<>>
    /\ implementations # <<>>

====
